---- MODULE Spec2Model ----
(***************************************************************************)
(* Model of the NASA APOD batch loader (src/main.py).                      *)
(*                                                                         *)
(* One run of fetch_nasa_image is a process p that walks through the       *)
(* function body one external call at a time.  The Firestore collection    *)
(* 'nasa_images', the storage bucket and the temporary directory are       *)
(* shared by all runs.  A title is a sequence of one-character strings.    *)
(***************************************************************************)
EXTENDS Integers, Sequences, FiniteSets, TLC

\* ------------------------------------------------------------------ bounds
\* Number of pipeline invocations the scheduler starts in one behaviour.
MaxRuns == 3
\* Longest title handed to sanitize_filename in the sanitizer specification.
MaxLen == 3

Procs == {1, 2}

VARIABLES
    pc,         \* pc[p]: stage the run of process p is in
    data,       \* data[p]: the parsed API response (line 71)
    doc,        \* doc[p]: doc.exists as read at line 83 ("unset" before)
    calls,      \* calls[p]: external calls the run has issued, in order
    result,     \* result[p]: "unset", "None" (skip) or "metadata"
    error,      \* error[p]: exception that left fetch_nasa_image, or "none"
    warned,     \* warned[p]: logging.warning of line 165 was emitted
    firestore,  \* documents of collection 'nasa_images'
    bucket,     \* objects of the storage bucket
    tmpfiles,   \* files present in tempfile.gettempdir()
    nruns,      \* invocations started so far
    san_pc,     \* sanitizer specification: "call" or "returned"
    san_name,   \* sanitizer specification: the argument
    san_out     \* sanitizer specification: the returned string

vars == <<pc, data, doc, calls, result, error, warned, firestore, bucket,
          tmpfiles, nruns, san_pc, san_name, san_out>>

runvars == <<pc, data, doc, calls, result, error, warned, firestore, bucket,
             tmpfiles, nruns>>

sanvars == <<san_pc, san_name, san_out>>

\* --------------------------------------------------------- character classes
AsciiLetters ==
    {"a","b","c","d","e","f","g","h","i","j","k","l","m",
     "n","o","p","q","r","s","t","u","v","w","x","y","z",
     "A","B","C","D","E","F","G","H","I","J","K","L","M",
     "N","O","P","Q","R","S","T","U","V","W","X","Y","Z"}

AsciiDigits == {"0","1","2","3","4","5","6","7","8","9"}

\* Non-ASCII code points that Python's str pattern \w matches:
\* U+00E9 (Latin small e with acute, a letter), U+0663 (Arabic-Indic digit 3).
UnicodeWord == {"U+00E9", "U+0663"}

\* \w of a str pattern (re.UNICODE is the default in Python 3).
IsWordChar(c) == c \in AsciiLetters \cup AsciiDigits \cup {"_"} \cup UnicodeWord

\* The characters the sanitizer specification builds its inputs from.
Chars == {"M", "a", "8", "_", ".", "-", " ", "\t", "!", "U+00E9", "U+0663"}

\* name.replace(' ', '_')
ReplaceSpaces(name) ==
    [i \in 1..Len(name) |-> IF name[i] = " " THEN "_" ELSE name[i]]

\* The character class [^\w\.-] of line 59.
IsStripped(c) == ~(IsWordChar(c) \/ c = "." \/ c = "-")

KeepChar(c) == ~IsStripped(c)

\* re.sub(r'[^\w\.-]', '', name)
StripSpecial(name) == SelectSeq(name, KeepChar)

\* sanitize_filename without the re.sub of line 59.
sanitize_filename_NoStrip(name) == ReplaceSpaces(name)

sanitize_filename(name) == StripSpecial(ReplaceSpaces(name))

\* ------------------------------------------------------------ API responses
\* A URL is kept as its identity and the extension of its path.
UrlJpg == [name |-> "http://x/m81", ext |-> ".JPG"]
UrlPng == [name |-> "http://x/m81", ext |-> ".png"]
UrlHd == [name |-> "http://x/m81_hd", ext |-> ""]
EmptyStr == [name |-> "", ext |-> ""]

Title1 == <<"M", " ", "8">>
Title2 == <<"M", "_", "8", "!">>
DefaultTitle == <<"n","a","s","a","_","i","m","a","g","e">>

NoData == [fields |-> {}, title |-> <<>>, url |-> EmptyStr, hdurl |-> EmptyStr]

\* A JSON object the API answers with; a key that is absent from `fields`
\* is absent from the object.
MkData(F, t, u, h) ==
    [fields |-> F,
     title  |-> IF "title" \in F THEN t ELSE <<>>,
     url    |-> IF "url" \in F THEN u ELSE EmptyStr,
     hdurl  |-> IF "hdurl" \in F THEN h ELSE EmptyStr]

\* The answers the runs are fed: two titles with the same sanitized key, a
\* missing title, a .png source, an empty and a set 'hdurl', and two answers
\* without 'url'.
Responses ==
    {MkData({"title", "url"}, Title1, UrlJpg, EmptyStr),
     MkData({"title", "url", "hdurl"}, Title2, UrlPng, UrlHd),
     MkData({"url", "hdurl"}, <<>>, UrlPng, EmptyStr),
     MkData({"title", "hdurl"}, Title1, EmptyStr, UrlHd),
     MkData({"title"}, Title2, EmptyStr, EmptyStr)}

\* data.get('hdurl') or data.get('url')   (None and '' are falsy)
image_url(d) ==
    IF "hdurl" \in d.fields /\ d.hdurl # EmptyStr THEN d.hdurl ELSE d.url

\* data.get('title', 'nasa_image')
raw_title(d) == IF "title" \in d.fields THEN d.title ELSE DefaultTitle

image_title(d) == sanitize_filename(raw_title(d))

\* str.lower() on the extensions in use
Lower(e) == CASE e = ".JPG" -> ".jpg" [] e = ".PNG" -> ".png" [] OTHER -> e

\* os.path.splitext(urlparse(image_url).path)[1].lower(), ".jpg" when empty
original_ext(u) == IF Lower(u.ext) = "" THEN ".jpg" ELSE Lower(u.ext)

\* os.path.join(temp_dir, f"{image_title}{original_ext}")
local_file(d) == <<image_title(d), original_ext(image_url(d))>>

\* os.path.join(temp_dir, f"{image_title}.png")
unified_file(d) == <<image_title(d), ".png">>

\* f"images/{image_title}.png"
blob_name(d) == <<"images/", image_title(d), ".png">>

\* The dictionary of lines 142-150; 'date', 'explanation' and 'media_type' are
\* copied from the answer as they are and are left out.
metadata(d) ==
    [original_url |-> image_url(d),
     title        |-> raw_title(d),
     storage_path |-> blob_name(d),
     public_url   |-> <<"public">> \o blob_name(d)]

\* ------------------------------------------------------- external services
\* A lookup that never finds the document (wrong collection).
DocExists_Never(key) == FALSE

\* doc_ref.get().exists
DocExists(key) == \E x \in firestore : x.id = key

\* A write that adds a document instead of replacing the one with that id.
DocSet_Add(key, value) ==
    firestore \cup
        {[id |-> key, data |-> value, version |-> Cardinality(firestore) + 1]}

\* DocumentReference.set: create or replace the document with that id.
DocSet(key, value) ==
    LET old == {x \in firestore : x.id = key}
        ver == IF old = {} THEN 1 ELSE (CHOOSE x \in old : TRUE).version + 1
    IN  (firestore \ old) \cup {[id |-> key, data |-> value, version |-> ver]}

\* An upload that adds an object instead of replacing the one with that name.
BlobUpload_Append(name) ==
    bucket \cup {[name |-> name, generation |-> Cardinality(bucket) + 1]}

\* Blob.upload_from_filename: create or replace the object with that name.
BlobUpload(name) ==
    LET old == {o \in bucket : o.name = name}
        gen == IF old = {} THEN 1 ELSE (CHOOSE o \in old : TRUE).generation + 1
    IN  (bucket \ old) \cup {[name |-> name, generation |-> gen]}

\* -------------------------------------------------------------------- Init
Init ==
    /\ pc = [p \in Procs |-> "Start"]
    /\ data = [p \in Procs |-> NoData]
    /\ doc = [p \in Procs |-> "unset"]
    /\ calls = [p \in Procs |-> <<>>]
    /\ result = [p \in Procs |-> "unset"]
    /\ error = [p \in Procs |-> "none"]
    /\ warned = [p \in Procs |-> FALSE]
    /\ firestore = {}
    /\ bucket = {}
    /\ tmpfiles = {}
    /\ nruns = 0
    /\ san_pc = "idle"
    /\ san_name = <<>>
    /\ san_out = <<>>

Terminal == {"Start", "Done", "Failed"}

\* A new invocation of the script by the scheduler (lines 169-171, 62-63).
StartRun(p) ==
    /\ pc[p] \in Terminal
    /\ nruns < MaxRuns
    /\ nruns' = nruns + 1
    /\ pc' = [pc EXCEPT ![p] = "Fetching"]
    /\ data' = [data EXCEPT ![p] = NoData]
    /\ doc' = [doc EXCEPT ![p] = "unset"]
    /\ calls' = [calls EXCEPT ![p] = <<>>]
    /\ result' = [result EXCEPT ![p] = "unset"]
    /\ error' = [error EXCEPT ![p] = "none"]
    /\ warned' = [warned EXCEPT ![p] = FALSE]
    /\ UNCHANGED <<firestore, bucket, tmpfiles, sanvars>>

\* Runs started one after the other: no other run is in flight.
Begin(p) ==
    /\ \A q \in Procs : pc[q] \in Terminal
    /\ StartRun(p)

\* Runs started without regard to each other.
BeginConcurrent(p) == StartRun(p)

\* raise: the exception leaves fetch_nasa_image.
Raise(p, exc) ==
    /\ pc' = [pc EXCEPT ![p] = "Failed"]
    /\ error' = [error EXCEPT ![p] = exc]

Call(p, name) == calls' = [calls EXCEPT ![p] = Append(@, name)]

\* Lines 65-69: the GET of the API fails or answers non-2xx.
FetchFail(p) ==
    /\ pc[p] = "Fetching"
    /\ Call(p, "api_get")
    /\ Raise(p, "RequestException")
    /\ UNCHANGED <<data, doc, result, warned, firestore, bucket, tmpfiles,
                   nruns, sanvars>>

\* Lines 65-74: the response has no 'url' key.
FetchMalformed(p) ==
    /\ pc[p] = "Fetching"
    /\ \E d \in Responses :
         /\ "url" \notin d.fields
         /\ data' = [data EXCEPT ![p] = d]
    /\ Call(p, "api_get")
    /\ Raise(p, "ValueError")
    /\ UNCHANGED <<doc, result, warned, firestore, bucket, tmpfiles, nruns,
                   sanvars>>

\* FetchOk that is content with either of 'url' and 'hdurl'.
FetchOk_EitherUrl(p) ==
    /\ pc[p] = "Fetching"
    /\ \E d \in Responses :
         /\ ~("url" \notin d.fields /\ "hdurl" \notin d.fields)
         /\ data' = [data EXCEPT ![p] = d]
    /\ Call(p, "api_get")
    /\ pc' = [pc EXCEPT ![p] = "Checking"]
    /\ UNCHANGED <<doc, result, error, warned, firestore, bucket, tmpfiles,
                   nruns, sanvars>>

\* Lines 65-79: the response has a 'url' key.
FetchOk(p) ==
    /\ pc[p] = "Fetching"
    /\ \E d \in Responses :
         /\ ~("url" \notin d.fields)
         /\ data' = [data EXCEPT ![p] = d]
    /\ Call(p, "api_get")
    /\ pc' = [pc EXCEPT ![p] = "Checking"]
    /\ UNCHANGED <<doc, result, error, warned, firestore, bucket, tmpfiles,
                   nruns, sanvars>>

\* CheckSkip without its return: the run logs the skip and goes on.
CheckSkip_NoReturn(p) ==
    /\ pc[p] = "Checking"
    /\ DocExists(image_title(data[p]))
    /\ doc' = [doc EXCEPT ![p] = "exists"]
    /\ Call(p, "doc_get")
    /\ pc' = [pc EXCEPT ![p] = "Downloading"]
    /\ UNCHANGED <<data, result, error, warned, firestore, bucket, tmpfiles,
                   nruns, sanvars>>

\* Lines 82-86: the document exists, return None.
CheckSkip(p) ==
    /\ pc[p] = "Checking"
    /\ DocExists(image_title(data[p]))
    /\ doc' = [doc EXCEPT ![p] = "exists"]
    /\ Call(p, "doc_get")
    /\ result' = [result EXCEPT ![p] = "None"]
    /\ pc' = [pc EXCEPT ![p] = "Done"]
    /\ UNCHANGED <<data, error, warned, firestore, bucket, tmpfiles, nruns,
                   sanvars>>

\* CheckPass without the test of doc.exists.
CheckPass_Unguarded(p) ==
    /\ pc[p] = "Checking"
    /\ doc' = [doc EXCEPT ![p] = "missing"]
    /\ Call(p, "doc_get")
    /\ pc' = [pc EXCEPT ![p] = "Downloading"]
    /\ UNCHANGED <<data, result, error, warned, firestore, bucket, tmpfiles,
                   nruns, sanvars>>

\* Lines 82-88: the document does not exist, go on.
CheckPass(p) ==
    /\ pc[p] = "Checking"
    /\ ~DocExists(image_title(data[p]))
    /\ doc' = [doc EXCEPT ![p] = "missing"]
    /\ Call(p, "doc_get")
    /\ pc' = [pc EXCEPT ![p] = "Downloading"]
    /\ UNCHANGED <<data, result, error, warned, firestore, bucket, tmpfiles,
                   nruns, sanvars>>

\* Lines 88-94: the GET of the image fails or answers non-2xx.
DownloadFail(p) ==
    /\ pc[p] = "Downloading"
    /\ Call(p, "img_get")
    /\ Raise(p, "RequestException")
    /\ UNCHANGED <<data, doc, result, warned, firestore, bucket, tmpfiles,
                   nruns, sanvars>>

\* Lines 88-112: the image arrives, writing the raw file fails (open() failed
\* and left nothing, or write() failed and left a partial file).
LocalWriteFail(p) ==
    /\ pc[p] = "Downloading"
    /\ calls' = [calls EXCEPT ![p] = @ \o <<"img_get", "file_write">>]
    /\ \E partial \in BOOLEAN :
         tmpfiles' = IF partial THEN tmpfiles \cup {local_file(data[p])}
                                ELSE tmpfiles
    /\ Raise(p, "OSError")
    /\ UNCHANGED <<data, doc, result, warned, firestore, bucket, nruns,
                   sanvars>>

\* Lines 88-109: the image arrives and is written to local_file.
DownloadOk(p) ==
    /\ pc[p] = "Downloading"
    /\ calls' = [calls EXCEPT ![p] = @ \o <<"img_get", "file_write">>]
    /\ tmpfiles' = tmpfiles \cup {local_file(data[p])}
    /\ pc' = [pc EXCEPT ![p] = "Converting"]
    /\ UNCHANGED <<data, doc, result, error, warned, firestore, bucket,
                   nruns, sanvars>>

\* Lines 114-120: Image.open fails (no image in the bytes, or no file).
OpenFail(p) ==
    /\ pc[p] = "Converting"
    /\ Call(p, "img_open")
    /\ Raise(p, "UnidentifiedImageError")
    /\ UNCHANGED <<data, doc, result, warned, firestore, bucket, tmpfiles,
                   nruns, sanvars>>

\* Lines 114-129: Image.open succeeds, img.save fails (with or without a
\* partial PNG left behind).
SaveFail(p) ==
    /\ pc[p] = "Converting"
    /\ local_file(data[p]) \in tmpfiles
    /\ calls' = [calls EXCEPT ![p] = @ \o <<"img_open", "img_save">>]
    /\ \E partial \in BOOLEAN :
         tmpfiles' = IF partial THEN tmpfiles \cup {unified_file(data[p])}
                                ELSE tmpfiles
    /\ Raise(p, "EncodeError")
    /\ UNCHANGED <<data, doc, result, warned, firestore, bucket, nruns,
                   sanvars>>

\* Lines 114-126: the image is opened and saved as unified_file.
ConvertOk(p) ==
    /\ pc[p] = "Converting"
    /\ local_file(data[p]) \in tmpfiles
    /\ calls' = [calls EXCEPT ![p] = @ \o <<"img_open", "img_save">>]
    /\ tmpfiles' = tmpfiles \cup {unified_file(data[p])}
    /\ pc' = [pc EXCEPT ![p] = "Uploading"]
    /\ UNCHANGED <<data, doc, result, error, warned, firestore, bucket,
                   nruns, sanvars>>

\* UploadFail without its raise: the error is logged and the run goes on.
UploadFail_Swallowed(p) ==
    /\ pc[p] = "Uploading"
    /\ Call(p, "upload")
    /\ pc' = [pc EXCEPT ![p] = "Recording"]
    /\ UNCHANGED <<data, doc, result, error, warned, firestore, bucket,
                   tmpfiles, nruns, sanvars>>

\* Lines 131-139: upload_from_filename raises (backend failure, or the file
\* is no longer there).
UploadFail(p) ==
    /\ pc[p] = "Uploading"
    /\ Call(p, "upload")
    /\ Raise(p, "UploadError")
    /\ UNCHANGED <<data, doc, result, warned, firestore, bucket, tmpfiles,
                   nruns, sanvars>>

\* Lines 131-136: unified_file is uploaded to images/{image_title}.png.
UploadOk(p) ==
    /\ pc[p] = "Uploading"
    /\ unified_file(data[p]) \in tmpfiles
    /\ Call(p, "upload")
    /\ bucket' = BlobUpload(blob_name(data[p]))
    /\ pc' = [pc EXCEPT ![p] = "Recording"]
    /\ UNCHANGED <<data, doc, result, error, warned, firestore, tmpfiles,
                   nruns, sanvars>>

\* RecordFail that removes the temporary files before it raises.
RecordFail_CleansUp(p) ==
    /\ pc[p] = "Recording"
    /\ Call(p, "doc_set")
    /\ tmpfiles' = tmpfiles \ {local_file(data[p]), unified_file(data[p])}
    /\ Raise(p, "PersistError")
    /\ UNCHANGED <<data, doc, result, warned, firestore, bucket, nruns,
                   sanvars>>

\* Lines 141-157: doc_ref.set raises.
RecordFail(p) ==
    /\ pc[p] = "Recording"
    /\ Call(p, "doc_set")
    /\ Raise(p, "PersistError")
    /\ UNCHANGED <<data, doc, result, warned, firestore, bucket, tmpfiles,
                   nruns, sanvars>>

\* Lines 141-154: the metadata document is written under image_title.
RecordOk(p) ==
    /\ pc[p] = "Recording"
    /\ Call(p, "doc_set")
    /\ firestore' = DocSet(image_title(data[p]), metadata(data[p]))
    /\ pc' = [pc EXCEPT ![p] = "CleaningUp"]
    /\ UNCHANGED <<data, doc, result, error, warned, bucket, tmpfiles,
                   nruns, sanvars>>

\* Cleanup that lets a failed removal leave the function.
Cleanup_Propagates(p) ==
    /\ pc[p] = "CleaningUp"
    /\ \E ok1, ok2 \in BOOLEAN :
         LET lf == local_file(data[p])
             uf == unified_file(data[p])
             rm1 == ok1 /\ lf \in tmpfiles
             after1 == IF rm1 THEN tmpfiles \ {lf} ELSE tmpfiles
             rm2 == rm1 /\ ok2 /\ uf \in after1
         IN  /\ tmpfiles' = IF rm2 THEN after1 \ {uf} ELSE after1
             /\ calls' = [calls EXCEPT ![p] =
                            IF rm1 THEN @ \o <<"remove", "remove">>
                                   ELSE @ \o <<"remove">>]
             /\ warned' = [warned EXCEPT ![p] = ~rm2]
             /\ IF rm2
                  THEN /\ result' = [result EXCEPT ![p] = "metadata"]
                       /\ pc' = [pc EXCEPT ![p] = "Done"]
                       /\ error' = error
                  ELSE /\ result' = result
                       /\ Raise(p, "OSError")
    /\ UNCHANGED <<data, doc, firestore, bucket, nruns, sanvars>>

\* Lines 159-167: both removals sit in one try block, so the second is only
\* attempted when the first succeeded; any failure is logged as a warning and
\* the metadata is returned.  os.remove fails when the file is not there or
\* when the operating system refuses (ok1, ok2).
Cleanup(p) ==
    /\ pc[p] = "CleaningUp"
    /\ \E ok1, ok2 \in BOOLEAN :
         LET lf == local_file(data[p])
             uf == unified_file(data[p])
             rm1 == ok1 /\ lf \in tmpfiles
             after1 == IF rm1 THEN tmpfiles \ {lf} ELSE tmpfiles
             rm2 == rm1 /\ ok2 /\ uf \in after1
         IN  /\ tmpfiles' = IF rm2 THEN after1 \ {uf} ELSE after1
             /\ calls' = [calls EXCEPT ![p] =
                            IF rm1 THEN @ \o <<"remove", "remove">>
                                   ELSE @ \o <<"remove">>]
             /\ warned' = [warned EXCEPT ![p] = ~rm2]
    /\ result' = [result EXCEPT ![p] = "metadata"]
    /\ pc' = [pc EXCEPT ![p] = "Done"]
    /\ UNCHANGED <<data, doc, error, firestore, bucket, nruns, sanvars>>

\* One step of a run that has been started.
Step(p) ==
    \/ FetchFail(p) \/ FetchMalformed(p) \/ FetchOk(p)
    \/ CheckSkip(p) \/ CheckPass(p)
    \/ DownloadFail(p) \/ LocalWriteFail(p) \/ DownloadOk(p)
    \/ OpenFail(p) \/ SaveFail(p) \/ ConvertOk(p)
    \/ UploadFail(p) \/ UploadOk(p)
    \/ RecordFail(p) \/ RecordOk(p)
    \/ Cleanup(p)

\* The job as scheduled: one invocation at a time.
Next == \E p \in Procs : Begin(p) \/ Step(p)

Spec == Init /\ [][Next]_vars

\* Invocations that overlap.
NextConcurrent == \E p \in Procs : BeginConcurrent(p) \/ Step(p)

SpecConcurrent == Init /\ [][NextConcurrent]_vars

\* ------------------------------------------- the sanitizer on its own
RECURSIVE SeqsUpTo(_, _)
SeqsUpTo(S, n) ==
    IF n = 0 THEN {<<>>}
    ELSE LET shorter == SeqsUpTo(S, n - 1)
         IN  shorter \cup {Append(s, c) : s \in shorter, c \in S}

InitSan ==
    /\ pc = [p \in Procs |-> "Start"]
    /\ data = [p \in Procs |-> NoData]
    /\ doc = [p \in Procs |-> "unset"]
    /\ calls = [p \in Procs |-> <<>>]
    /\ result = [p \in Procs |-> "unset"]
    /\ error = [p \in Procs |-> "none"]
    /\ warned = [p \in Procs |-> FALSE]
    /\ firestore = {}
    /\ bucket = {}
    /\ tmpfiles = {}
    /\ nruns = 0
    /\ san_pc = "call"
    /\ san_name \in SeqsUpTo(Chars, MaxLen)
    /\ san_out = <<>>

Sanitize ==
    /\ san_pc = "call"
    /\ san_out' = sanitize_filename(san_name)
    /\ san_pc' = "returned"
    /\ UNCHANGED <<san_name, runvars>>

NextSan == Sanitize

SpecSan == InitSan /\ [][NextSan]_vars

\* =================================================================== claims
Has(p, c) == \E i \in 1..Len(calls[p]) : calls[p][i] = c

KeyOf(p) == image_title(data[p])

DocsAt(key) == {x \in firestore : x.id = key}

ObjectsAt(name) == {o \in bucket : o.name = name}

\* The run of p has received an API answer.
Answered(p) == data[p] \in Responses

\* Every external call of one run, in the order of the function body.
CallOrder ==
    <<"api_get", "doc_get", "img_get", "file_write", "img_open", "img_save",
      "upload", "doc_set", "remove", "remove">>

\* ---------------------------------------------------------------------- C1
\* The state of a run whose duplicate check found the document.
C1_State ==
    \A p \in Procs :
        doc[p] = "exists" =>
            /\ pc[p] = "Done"
            /\ result[p] = "None"
            /\ error[p] = "none"
            /\ calls[p] = <<"api_get", "doc_get">>

\* The step a run takes out of Checking when the document exists.
C1_Step ==
    \A p \in Procs :
        (pc[p] = "Checking" /\ pc'[p] # "Checking" /\ DocsAt(KeyOf(p)) # {}) =>
            /\ pc'[p] = "Done"
            /\ result'[p] = "None"
            /\ firestore' = firestore
            /\ bucket' = bucket
            /\ tmpfiles' = tmpfiles

\* C1: a run whose metadata fetch succeeded and whose key already has a
\* document returns None without an error, issues no image download, no
\* upload and no document write (its only calls are the API request and the
\* document read), and leaves the document store, the bucket and the
\* temporary directory as they were.
C1_SkipDoesNothing == [](C1_State) /\ [][C1_Step]_vars

C1_Witness ==
    \E p \in Procs :
        /\ doc[p] = "exists"
        /\ pc[p] = "Done"
        /\ result[p] = "None"
        /\ DocsAt(KeyOf(p)) # {}

\* ---------------------------------------------------------------------- C2
StageEdges ==
    {<<"Start", "Fetching">>, <<"Done", "Fetching">>, <<"Failed", "Fetching">>,
     <<"Fetching", "Checking">>, <<"Fetching", "Failed">>,
     <<"Checking", "Done">>, <<"Checking", "Downloading">>,
     <<"Downloading", "Converting">>, <<"Downloading", "Failed">>,
     <<"Converting", "Uploading">>, <<"Converting", "Failed">>,
     <<"Uploading", "Recording">>, <<"Uploading", "Failed">>,
     <<"Recording", "CleaningUp">>, <<"Recording", "Failed">>,
     <<"CleaningUp", "Done">>}

\* Number of calls a run has issued when it enters a stage.
CallsBefore(stage) ==
    CASE stage = "Start" -> 0
      [] stage = "Fetching" -> 0
      [] stage = "Checking" -> 1
      [] stage = "Downloading" -> 2
      [] stage = "Converting" -> 4
      [] stage = "Uploading" -> 6
      [] stage = "Recording" -> 7
      [] stage = "CleaningUp" -> 8

\* The calls after which each exception is raised.
RaisedAfter(exc) ==
    CASE exc = "RequestException" -> {"api_get", "img_get"}
      [] exc = "ValueError" -> {"api_get"}
      [] exc = "OSError" -> {"file_write"}
      [] exc = "UnidentifiedImageError" -> {"img_open"}
      [] exc = "EncodeError" -> {"img_save"}
      [] exc = "UploadError" -> {"upload"}
      [] exc = "PersistError" -> {"doc_set"}

C2_State ==
    \A p \in Procs :
        /\ calls[p] = SubSeq(CallOrder, 1, Len(calls[p]))
        /\ pc[p] \notin {"Done", "Failed"} => Len(calls[p]) = CallsBefore(pc[p])
        /\ pc[p] = "Failed" <=> error[p] # "none"
        /\ pc[p] = "Failed" =>
              /\ result[p] = "unset"
              /\ calls[p] # <<>>
              /\ calls[p][Len(calls[p])] \in RaisedAfter(error[p])
        /\ Has(p, "doc_set") => ObjectsAt(blob_name(data[p])) # {}
        /\ Has(p, "upload") => ~Has(p, "remove") \/ result[p] = "metadata"

C2_Step ==
    \A p \in Procs : pc'[p] # pc[p] => <<pc[p], pc'[p]>> \in StageEdges

\* C2: a run moves along Start -> Fetching -> Checking -> (skip | Downloading
\* -> Converting -> Uploading -> Recording -> CleaningUp) -> Done; its calls
\* are a prefix of the fixed call order, so no stage runs twice; a failure
\* ends the run in Failed with the exception set, no result, and the failed
\* call as the last call of the run (no upload after a failed conversion, no
\* document write without an uploaded object).
C2_ForwardOnly == [](C2_State) /\ [][C2_Step]_vars

C2_Witness ==
    \E p \in Procs :
        /\ pc[p] = "Failed"
        /\ error[p] = "UploadError"
        /\ calls[p] = SubSeq(CallOrder, 1, 7)
        /\ DocsAt(KeyOf(p)) = {}

\* ---------------------------------------------------------------------- C3
C3_State ==
    /\ \A x \in firestore :
          /\ x.version = 1
          /\ DocsAt(x.id) = {x}
          /\ ObjectsAt(x.data.storage_path) # {}
    /\ \A p \in Procs :
          /\ result[p] = "metadata" => DocsAt(KeyOf(p)) # {}
          /\ pc[p] \in {"Downloading", "Converting", "Uploading", "Recording"}
                => DocsAt(KeyOf(p)) = {}

C3_Step ==
    /\ firestore' # firestore =>
          \E p \in Procs :
              /\ pc[p] = "Recording" /\ pc'[p] = "CleaningUp"
              /\ Has(p, "upload")
              /\ ObjectsAt(blob_name(data[p])) # {}
              /\ DocsAt(KeyOf(p)) = {}
              /\ firestore' = firestore \cup
                    {[id |-> KeyOf(p), data |-> metadata(data[p]), version |-> 1]}
              /\ bucket' = bucket
    /\ \A p \in Procs :
          (pc[p] = "Checking" /\ pc'[p] # "Checking" /\ DocsAt(KeyOf(p)) # {})
              => pc'[p] = "Done" /\ result'[p] = "None"
    /\ \A p \in Procs :
          (pc[p] = "CleaningUp" /\ pc'[p] # "CleaningUp")
              => firestore' = firestore /\ bucket' = bucket

KeyOfName(name) == name[2]

\* C4 as stated: an object, once written, is never written again or deleted.
C4_Original == [][\A o \in bucket : o \in bucket']_vars

C4_State ==
    \A p \in Procs : pc[p] = "Uploading" => DocsAt(KeyOf(p)) = {}

C4_Step ==
    \A o \in bucket :
        /\ ObjectsAt(o.name)' # {}
        /\ DocsAt(KeyOfName(o.name)) # {} => o \in bucket'

\* C4 (amended): over runs that do not overlap, no object is ever deleted,
\* and once the document of a key is written the object images/{key}.png is
\* never written again (a run reaches the upload only while the key has no
\* document); before that, a re-run overwrites it.
C4_FrozenOnceRecorded == [](C4_State) /\ [][C4_Step]_vars

C4_Witness ==
    \E p \in Procs :
        /\ doc[p] = "exists"
        /\ pc[p] = "Done"
        /\ ObjectsAt(blob_name(data[p])) =
              {[name |-> blob_name(data[p]), generation |-> 2]}

\* ---------------------------------------------------------------------- C5
C5_State ==
    \A p \in Procs :
        (pc[p] \in {"CleaningUp", "Done"} /\ doc[p] = "missing") =>
            /\ Cardinality(ObjectsAt(blob_name(data[p]))) = 1
            /\ Cardinality(DocsAt(KeyOf(p))) = 1

C5_Step ==
    \A p \in Procs :
        /\ (/\ pc[p] = "Checking" /\ pc'[p] # "Checking"
            /\ ObjectsAt(blob_name(data[p])) # {}
            /\ DocsAt(KeyOf(p)) = {})
              => pc'[p] = "Downloading"
        /\ (/\ pc[p] = "Uploading" /\ pc'[p] = "Recording"
            /\ ObjectsAt(blob_name(data[p])) # {})
              => \E o \in bucket :
                    /\ o.name = blob_name(data[p])
                    /\ bucket' = (bucket \ {o}) \cup
                          {[name |-> o.name, generation |-> o.generation + 1]}

\* C5: when an object is at images/{key}.png and the key has no document (a
\* run stopped between upload and document write), the next run for the key
\* passes the duplicate check, its upload replaces the object at the same
\* name, and once it has written the document there is exactly one object at
\* that name and exactly one document for the key.
C5_ReuploadOverwrites == [](C5_State) /\ [][C5_Step]_vars

C5_Witness ==
    \E p \in Procs :
        /\ pc[p] = "Done"
        /\ result[p] = "metadata"
        /\ ObjectsAt(blob_name(data[p])) =
              {[name |-> blob_name(data[p]), generation |-> 2]}
        /\ \E x \in firestore :
              DocsAt(KeyOf(p)) = {x} /\ x.version = 1

\* ---------------------------------------------------------------------- C6
\* C6: with overlapping runs, every document id and every object name is
\* held at most once, and the object of a recorded key sits at
\* images/{key}.png.
C6_AtMostOnePerKey ==
    /\ \A x \in firestore : DocsAt(x.id) = {x}
    /\ \A o \in bucket : ObjectsAt(o.name) = {o}
    /\ \A x \in firestore :
          \E o \in bucket : o.name = <<"images/", x.id, ".png">>
    /\ Cardinality(firestore) <= Cardinality(bucket)

\* Both runs passed the duplicate check for the same key, both uploaded and
\* both wrote the document.
C6_Witness ==
    /\ \A p \in Procs :
          /\ pc[p] \in {"CleaningUp", "Done"}
          /\ doc[p] = "missing"
          /\ Has(p, "upload") /\ Has(p, "doc_set")
    /\ KeyOf(1) = KeyOf(2)
    /\ \E x \in firestore : DocsAt(KeyOf(1)) = {x} /\ x.version = 2
    /\ ObjectsAt(blob_name(data[1])) =
          {[name |-> blob_name(data[1]), generation |-> 2]}

\* ---------------------------------------------------------------------- C7
C7_State ==
    \A p \in Procs :
        /\ warned[p] =>
              /\ pc[p] = "Done"
              /\ result[p] = "metadata"
              /\ error[p] = "none"
              /\ DocsAt(KeyOf(p)) # {}
              /\ ObjectsAt(blob_name(data[p])) # {}
        /\ (Has(p, "doc_set") /\ error[p] # "PersistError") =>
              /\ pc[p] \in {"CleaningUp", "Done"}
              /\ error[p] = "none"
              /\ pc[p] = "Done" => result[p] = "metadata"

C7_Step ==
    \A p \in Procs :
        (pc[p] = "CleaningUp" /\ pc'[p] # "CleaningUp") =>
            /\ pc'[p] = "Done"
            /\ result'[p] = "metadata"
            /\ error'[p] = "none"
            /\ firestore' = firestore
            /\ bucket' = bucket

\* C7: a run whose document write succeeded ends in Done and returns the
\* metadata whether or not the removals of the temporary files succeeded; a
\* failed removal only sets the warning, and the cleanup step leaves the
\* document store and the bucket as they were.
C7_CleanupNeverFails == [](C7_State) /\ [][C7_Step]_vars

C7_Witness ==
    \E p \in Procs :
        /\ warned[p]
        /\ pc[p] = "Done"
        /\ result[p] = "metadata"
        /\ local_file(data[p]) \in tmpfiles

\* ---------------------------------------------------------------------- C8
\* C8: a run whose API answer has no 'url' key (with or without 'hdurl')
\* is Failed with ValueError and has issued the API request only: no
\* document read, no image download, no file write, no upload, no document
\* write.
C8_NoUrlFailsFirst ==
    \A p \in Procs :
        (Answered(p) /\ "url" \notin data[p].fields) =>
            /\ pc[p] = "Failed"
            /\ error[p] = "ValueError"
            /\ result[p] = "unset"
            /\ doc[p] = "unset"
            /\ calls[p] = <<"api_get">>

C8_Witness ==
    \E p \in Procs :
        /\ Answered(p)
        /\ "url" \notin data[p].fields
        /\ "hdurl" \in data[p].fields
        /\ data[p].hdurl # EmptyStr
        /\ pc[p] = "Failed"
        /\ error[p] = "ValueError"

\* ---------------------------------------------------------------------- C9
AsciiSafe == AsciiLetters \cup AsciiDigits \cup {"_", ".", "-"}

\* C9 as stated: every character of the output is in [A-Za-z0-9_.-].
C9_Original ==
    san_pc = "returned" => \A i \in 1..Len(san_out) : san_out[i] \in AsciiSafe

\* C9 (amended): every character of the output is a word character of
\* Python's \w (which includes non-ASCII letters and digits), a dot or a
\* hyphen; when the input holds no non-ASCII letter or digit, every
\* character of the output is in [A-Za-z0-9_.-].
C9_OnlyWordDotHyphen ==
    san_pc = "returned" =>
        /\ \A i \in 1..Len(san_out) : san_out[i] \in AsciiSafe \cup UnicodeWord
        /\ (\A i \in 1..Len(san_name) : san_name[i] \notin UnicodeWord)
              => \A i \in 1..Len(san_out) : san_out[i] \in AsciiSafe

C9_Witness ==
    /\ san_pc = "returned"
    /\ san_name = <<"\t", "!", "U+00E9">>
    /\ san_out = <<"U+00E9">>

\* --------------------------------------------------------------------- C10
C10_State ==
    \A p \in Procs :
        /\ Has(p, "remove") =>
              /\ Has(p, "doc_set")
              /\ pc[p] = "Done"
              /\ result[p] = "metadata"
              /\ DocsAt(KeyOf(p)) # {}
        /\ result[p] = "None" =>
              /\ ~Has(p, "file_write") /\ ~Has(p, "img_save")
              /\ ~Has(p, "remove")
        /\ pc[p] = "Failed" => ~Has(p, "remove")

C10_Step ==
    /\ \A p \in Procs :
          (pc[p] \in {"Converting", "Uploading", "Recording"}
              /\ pc'[p] = "Failed") =>
              /\ tmpfiles \subseteq tmpfiles'
              /\ local_file(data[p]) \in tmpfiles'
              /\ pc[p] # "Converting" => unified_file(data[p]) \in tmpfiles'
    /\ \A p \in Procs :
          (pc[p] = "Checking" /\ pc'[p] = "Done") => tmpfiles' = tmpfiles
    /\ ~(tmpfiles \subseteq tmpfiles') =>
          \E p \in Procs :
              /\ pc[p] = "CleaningUp" /\ pc'[p] = "Done"
              /\ DocsAt(KeyOf(p)) # {}

\* C10: over runs that do not overlap, a temporary file is removed only by
\* the cleanup of a run whose document write succeeded; a run that fails in
\* Converting, Uploading or Recording removes nothing and leaves the raw
\* file (and, after Converting, the PNG) in the temporary directory; a run
\* that skips writes and removes no local file.
C10_CleanupOnSuccessOnly == [](C10_State) /\ [][C10_Step]_vars

C10_Witness ==
    \E p \in Procs :
        /\ pc[p] = "Failed"
        /\ error[p] = "PersistError"
        /\ local_file(data[p]) \in tmpfiles
        /\ unified_file(data[p]) \in tmpfiles
        /\ local_file(data[p]) # unified_file(data[p])

====
